---- MODULE Spec2Model ----
(***************************************************************************)
(* Model of .github/actions/smart-ping/index.js: the async function run()  *)
(* that opens a page in a headless browser, clicks a wake-up control when  *)
(* the lookup finds one, takes a screenshot, closes the browser and        *)
(* reports the outcome through @actions/core.                              *)
(*                                                                         *)
(* Every awaited call is a suspension point and is one action: it either   *)
(* resolves (the next statement runs) or rejects with an Error whose       *)
(* message is drawn from a small set (control transfers to the catch       *)
(* block).  The synchronous statements that follow an await up to the next *)
(* await belong to the action of that await's continuation.                *)
(*                                                                         *)
(* Line 31 of the file carries a trailing "# Optional: Log for debug",     *)
(* which is not a JavaScript comment; the model follows the statement      *)
(* sequence of run() as written and leaves that token out.                 *)
(***************************************************************************)
EXTENDS Integers, Sequences, FiniteSets, TLC

VARIABLES
    pc,         \* position of run(): the statement to execute next
    input,      \* the workflow input 'url' (environment)
    loadTime,   \* ms the page needs to reach networkidle2 (environment)
    matches,    \* elements of the loaded page matching the selector list, in document order (environment)
    url,        \* const url
    browser,    \* the browser session: "none", "open" or "closed"
    wakeButton, \* const wakeButton: an element handle or NULL
    error,      \* the catch binding: message of the caught Error, or NoError
    calls,      \* browser-automation calls made so far, in order, with their result
    clicked,    \* elements that received a click, in order
    files,      \* paths written to local disk, in order
    log,        \* lines printed with console.log / console.error, in order
    status,     \* the action output 'status', or UNSET
    failed      \* messages passed to core.setFailed, in order

vars == <<pc, input, loadTime, matches, url, browser, wakeButton, error,
          calls, clicked, files, log, status, failed>>

\* ---------------------------------------------------------------- bounds
NumElems   == 2      \* distinct elements a page can hold
MaxMatches == 2      \* most elements of a page that match the selector list

\* ---------------------------------------------------- program constants
NavTimeout  == 30000 \* goto(..., { timeout: 30000 })
BannerDelay == 2000  \* page.waitForTimeout(2000)
WakeDelay   == 5000  \* page.waitForTimeout(5000)

ScreenshotPath == "ping-screenshot.png"
StatusAwake    == "awake"
\* the em dash of the two source literals is written "--": module text is ASCII
MsgSleep       == "Sleep detected--waking up..."
MsgAwake       == "App is already awake."
MsgSuccess     == "Ping successful--app is active."
FailPrefix     == "Ping failed: "

\* ------------------------------------------------------------ environment
NULL    == 0
UNSET   == "<unset>"
NoError == "<none>"
Elems   == 1..NumElems
URLs    == {"https://app.example", "https://down.example"}
LoadTimes == {1000, 45000}
TimeoutMsg == "Navigation timeout of 30000 ms exceeded"
Errors  == {"Protocol error: Target closed", ""}

RECURSIVE SeqsUpTo(_)
SeqsUpTo(n) ==
    IF n = 0 THEN {<<>>}
    ELSE LET shorter == SeqsUpTo(n - 1)
         IN  shorter \cup {Append(s, e) : s \in {t \in shorter : Len(t) = n - 1}, e \in Elems}

Range(s) == {s[i] : i \in 1..Len(s)}

\* the pages: duplicate-free lists of matching elements, in document order
Pages == {s \in SeqsUpTo(MaxMatches) : Cardinality(Range(s)) = Len(s)}

Call(op, arg, msg) == [op |-> op, arg |-> arg, res |-> IF msg = NoError THEN "ok" ELSE "throw", msg |-> msg]

\* the template literal `Ping failed: ${error.message}`
FailLine(msg) == FailPrefix \o msg

QuerySelectorMutLast(page) == IF Len(page) = 0 THEN NULL ELSE page[Len(page)]

\* page.$(selectors): the first matching element in document order, or null
QuerySelector(page) == IF Len(page) = 0 THEN NULL ELSE page[1]

\* a rejected await inside the try block: control moves to the catch block
Throw(op, arg, msg) ==
    /\ calls' = Append(calls, Call(op, arg, msg))
    /\ error' = msg
    /\ pc' = "catch"

Init ==
    /\ pc = "getInput"
    /\ input \in URLs
    /\ loadTime \in LoadTimes
    /\ matches \in Pages
    /\ url = UNSET
    /\ browser = "none"
    /\ wakeButton = NULL
    /\ error = NoError
    /\ calls = <<>>
    /\ clicked = <<>>
    /\ files = <<>>
    /\ log = <<>>
    /\ status = UNSET
    /\ failed = <<>>

\* const url = core.getInput('url');
GetInput ==
    /\ pc = "getInput"
    /\ url' = input
    /\ pc' = "launch"
    /\ UNCHANGED <<input, loadTime, matches, browser, wakeButton, error,
                   calls, clicked, files, log, status, failed>>

\* const browser = await puppeteer.launch({...});
Launch ==
    /\ pc = "launch"
    /\ \/ /\ calls' = Append(calls, Call("launch", 0, NoError))
          /\ browser' = "open"
          /\ pc' = "newPage"
          /\ UNCHANGED error
       \/ /\ \E m \in Errors : Throw("launch", 0, m)
          /\ UNCHANGED browser
    /\ UNCHANGED <<input, loadTime, matches, url, wakeButton,
                   clicked, files, log, status, failed>>

\* const page = await browser.newPage();
NewPage ==
    /\ pc = "newPage"
    /\ \/ /\ calls' = Append(calls, Call("newPage", 0, NoError))
          /\ pc' = "goto"
          /\ UNCHANGED error
       \/ \E m \in Errors : Throw("newPage", 0, m)
    /\ UNCHANGED <<input, loadTime, matches, url, browser, wakeButton,
                   clicked, files, log, status, failed>>

GotoMutNoTimeout ==
    /\ pc = "goto"
    /\ \/ /\ calls' = Append(calls, Call("goto", NavTimeout, NoError))
          /\ pc' = "waitBanner"
          /\ UNCHANGED error
       \/ /\ loadTime <= NavTimeout
          /\ \E m \in Errors : Throw("goto", NavTimeout, m)
    /\ UNCHANGED <<input, loadTime, matches, url, browser, wakeButton,
                   clicked, files, log, status, failed>>

GotoMutRetry ==
    /\ pc = "goto"
    /\ \/ /\ loadTime <= NavTimeout
          /\ calls' = Append(calls, Call("goto", NavTimeout, NoError))
          /\ pc' = "waitBanner"
          /\ UNCHANGED error
       \/ /\ loadTime > NavTimeout
          /\ calls' = Append(calls, Call("goto", NavTimeout, TimeoutMsg))
          /\ error' = TimeoutMsg
          /\ pc' = IF Len(calls) < 3 THEN "goto" ELSE "catch"
       \/ /\ loadTime <= NavTimeout
          /\ \E m \in Errors : Throw("goto", NavTimeout, m)
    /\ UNCHANGED <<input, loadTime, matches, url, browser, wakeButton,
                   clicked, files, log, status, failed>>

GotoMutSkipPause ==
    /\ pc = "goto"
    /\ \/ /\ loadTime <= NavTimeout
          /\ calls' = Append(calls, Call("goto", NavTimeout, NoError))
          /\ pc' = "lookup"
          /\ UNCHANGED error
       \/ /\ loadTime > NavTimeout
          /\ Throw("goto", NavTimeout, TimeoutMsg)
       \/ /\ loadTime <= NavTimeout
          /\ \E m \in Errors : Throw("goto", NavTimeout, m)
    /\ UNCHANGED <<input, loadTime, matches, url, browser, wakeButton,
                   clicked, files, log, status, failed>>

\* await page.goto(url, { waitUntil: 'networkidle2', timeout: 30000 });
Goto ==
    /\ pc = "goto"
    /\ \/ /\ loadTime <= NavTimeout
          /\ calls' = Append(calls, Call("goto", NavTimeout, NoError))
          /\ pc' = "waitBanner"
          /\ UNCHANGED error
       \/ /\ loadTime > NavTimeout
          /\ Throw("goto", NavTimeout, TimeoutMsg)
       \/ /\ loadTime <= NavTimeout
          /\ \E m \in Errors : Throw("goto", NavTimeout, m)
    /\ UNCHANGED <<input, loadTime, matches, url, browser, wakeButton,
                   clicked, files, log, status, failed>>

\* await page.waitForTimeout(2000);
WaitBanner ==
    /\ pc = "waitBanner"
    /\ \/ /\ calls' = Append(calls, Call("waitForTimeout", BannerDelay, NoError))
          /\ pc' = "lookup"
          /\ UNCHANGED error
       \/ \E m \in Errors : Throw("waitForTimeout", BannerDelay, m)
    /\ UNCHANGED <<input, loadTime, matches, url, browser, wakeButton,
                   clicked, files, log, status, failed>>

\* const wakeButton = await page.$('button:has-text("Wake up"), ...');
Lookup ==
    /\ pc = "lookup"
    /\ \/ /\ calls' = Append(calls, Call("$", 0, NoError))
          /\ wakeButton' = QuerySelector(matches)
          /\ pc' = "branch"
          /\ UNCHANGED error
       \/ /\ \E m \in Errors : Throw("$", 0, m)
          /\ UNCHANGED wakeButton
    /\ UNCHANGED <<input, loadTime, matches, url, browser,
                   clicked, files, log, status, failed>>

\* if (wakeButton) { console.log('Sleep detected...'); await wakeButton.click();
Click ==
    /\ pc = "branch"
    /\ wakeButton # NULL
    /\ log' = Append(log, MsgSleep)
    /\ \/ /\ calls' = Append(calls, Call("click", wakeButton, NoError))
          /\ clicked' = Append(clicked, wakeButton)
          /\ pc' = "waitWake"
          /\ UNCHANGED error
       \/ /\ \E m \in Errors : Throw("click", wakeButton, m)
          /\ UNCHANGED clicked
    /\ UNCHANGED <<input, loadTime, matches, url, browser, wakeButton,
                   files, status, failed>>

\* await page.waitForTimeout(5000);  // Wait for wake
WaitWake ==
    /\ pc = "waitWake"
    /\ \/ /\ calls' = Append(calls, Call("waitForTimeout", WakeDelay, NoError))
          /\ pc' = "screenshot"
          /\ UNCHANGED error
       \/ \E m \in Errors : Throw("waitForTimeout", WakeDelay, m)
    /\ UNCHANGED <<input, loadTime, matches, url, browser, wakeButton,
                   clicked, files, log, status, failed>>

AlreadyAwakeMutSettle ==
    /\ pc = "branch"
    /\ wakeButton = NULL
    /\ log' = Append(log, MsgAwake)
    /\ calls' = Append(calls, Call("waitForTimeout", WakeDelay, NoError))
    /\ pc' = "screenshot"
    /\ UNCHANGED <<input, loadTime, matches, url, browser, wakeButton, error,
                   clicked, files, status, failed>>

\* } else { console.log('App is already awake.'); }
AlreadyAwake ==
    /\ pc = "branch"
    /\ wakeButton = NULL
    /\ log' = Append(log, MsgAwake)
    /\ pc' = "screenshot"
    /\ UNCHANGED <<input, loadTime, matches, url, browser, wakeButton, error,
                   calls, clicked, files, status, failed>>

ScreenshotMutTwice ==
    /\ pc = "screenshot"
    /\ \/ /\ calls' = calls \o <<Call("screenshot", 0, NoError), Call("screenshot", 0, NoError)>>
          /\ files' = files \o <<ScreenshotPath, ScreenshotPath>>
          /\ log' = Append(log, MsgSuccess)
          /\ pc' = "close"
          /\ UNCHANGED error
       \/ /\ \E m \in Errors : Throw("screenshot", 0, m)
          /\ UNCHANGED <<files, log>>
    /\ UNCHANGED <<input, loadTime, matches, url, browser, wakeButton,
                   clicked, status, failed>>

\* await page.screenshot({ path: 'ping-screenshot.png', fullPage: true });
\* console.log('Ping successful...');
Screenshot ==
    /\ pc = "screenshot"
    /\ \/ /\ calls' = Append(calls, Call("screenshot", 0, NoError))
          /\ files' = Append(files, ScreenshotPath)
          /\ log' = Append(log, MsgSuccess)
          /\ pc' = "close"
          /\ UNCHANGED error
       \/ /\ \E m \in Errors : Throw("screenshot", 0, m)
          /\ UNCHANGED <<files, log>>
    /\ UNCHANGED <<input, loadTime, matches, url, browser, wakeButton,
                   clicked, status, failed>>

\* await browser.close();
Close ==
    /\ pc = "close"
    /\ \/ /\ calls' = Append(calls, Call("close", 0, NoError))
          /\ browser' = "closed"
          /\ pc' = "setOutput"
          /\ UNCHANGED error
       \/ /\ \E m \in Errors : Throw("close", 0, m)
          /\ UNCHANGED browser
    /\ UNCHANGED <<input, loadTime, matches, url, wakeButton,
                   clicked, files, log, status, failed>>

\* core.setOutput('status', 'awake');
SetOutput ==
    /\ pc = "setOutput"
    /\ status' = StatusAwake
    /\ pc' = "done"
    /\ UNCHANGED <<input, loadTime, matches, url, browser, wakeButton, error,
                   calls, clicked, files, log, failed>>

CatchMutNoFlag ==
    /\ pc = "catch"
    /\ log' = Append(log, FailLine(error))
    /\ pc' = "done"
    /\ UNCHANGED <<input, loadTime, matches, url, browser, wakeButton, error,
                   calls, clicked, files, status, failed>>

CatchMutGeneric ==
    /\ pc = "catch"
    /\ log' = Append(log, FailLine(error))
    /\ failed' = Append(failed, "Action failed")
    /\ pc' = "done"
    /\ UNCHANGED <<input, loadTime, matches, url, browser, wakeButton, error,
                   calls, clicked, files, status>>

\* } catch (error) { console.error(`Ping failed: ${error.message}`);
\*                   core.setFailed(error.message); }
Catch ==
    /\ pc = "catch"
    /\ log' = Append(log, FailLine(error))
    /\ failed' = Append(failed, error)
    /\ pc' = "done"
    /\ UNCHANGED <<input, loadTime, matches, url, browser, wakeButton, error,
                   calls, clicked, files, status>>

Next ==
    \/ GetInput
    \/ Launch
    \/ NewPage
    \/ Goto
    \/ WaitBanner
    \/ Lookup
    \/ Click
    \/ WaitWake
    \/ AlreadyAwake
    \/ Screenshot
    \/ Close
    \/ SetOutput
    \/ Catch

Spec == Init /\ [][Next]_vars

\* every awaited call settles (resolves or rejects), so run() keeps stepping
FairSpec == Spec /\ WF_vars(Next)

\* ------------------------------------------------------- derived notions
Terminal == pc = "done"

\* positions of the calls of an operation with a given argument
Attempts(op, arg) == {i \in DOMAIN calls : calls[i].op = op /\ calls[i].arg = arg}
Done(op, arg)     == {i \in Attempts(op, arg) : calls[i].res = "ok"}
ClickAttempts     == {i \in DOMAIN calls : calls[i].op = "click"}
Threw             == \E i \in DOMAIN calls : calls[i].res = "throw"

\* the phase of the run, read off the calls made so far
Phase ==
    IF Threw THEN "Failed"
    ELSE IF Done("close", 0) # {} THEN "Closed"
    ELSE IF Done("screenshot", 0) # {} THEN "ScreenshotTaken"
    ELSE IF ClickAttempts # {} THEN "WokeUp"
    ELSE IF Done("$", 0) # {} /\ wakeButton = NULL THEN "AlreadyAwake"
    ELSE IF Done("goto", NavTimeout) # {} THEN "Navigated"
    ELSE "NotStarted"

PhaseEdges ==
    {<<"NotStarted", "Navigated">>, <<"Navigated", "WokeUp">>,
     <<"Navigated", "AlreadyAwake">>, <<"WokeUp", "ScreenshotTaken">>,
     <<"AlreadyAwake", "ScreenshotTaken">>, <<"ScreenshotTaken", "Closed">>}
    \cup {<<p, "Failed">> : p \in {"NotStarted", "Navigated", "WokeUp",
                                   "AlreadyAwake", "ScreenshotTaken"}}

\* ------------------------------------------------------------------ C1
\* C1: when run() has reached its terminal state, a browser that
\* puppeteer.launch returned has had browser.close called on it.
C1_BrowserReleasedOnExit ==
    (Terminal /\ Done("launch", 0) # {}) => Attempts("close", 0) # {}

\* ------------------------------------------------------------------ C2
\* C2: a finished run has either output status = 'awake' and no
\* core.setFailed call, or a core.setFailed call and the output unset;
\* never both, never neither.
C2_ExactlyOneOutcome ==
    Terminal => \/ status = StatusAwake /\ failed = <<>>
                \/ status = UNSET /\ Len(failed) = 1

C2_Witness == Terminal /\ status = UNSET /\ failed # <<>> /\ files # <<>>

\* ------------------------------------------------------------------ C3
\* C3: a rejected call is the last call of the run (the remaining steps are
\* skipped), and when the run has finished the last log line is
\* 'Ping failed: ' followed by that call's message and core.setFailed was
\* called once, with that message; this holds whichever step rejected.
C3_FailureReported ==
    /\ \A i \in DOMAIN calls : calls[i].res = "throw" => i = Len(calls)
    /\ (Terminal /\ Threw) =>
          /\ log # <<>>
          /\ log[Len(log)] = FailPrefix \o calls[Len(calls)].msg
          /\ failed = <<calls[Len(calls)].msg>>
          /\ status = UNSET

C3_Witness ==
    /\ Terminal
    /\ Threw
    /\ calls[Len(calls)].op = "click"
    /\ log[Len(log)] = "Ping failed: Protocol error: Target closed"

\* ------------------------------------------------------------------ C4
\* C4: when the page needs longer than the 30 s navigation timeout, the
\* run never looks up, clicks or takes a screenshot and never sets the
\* output to 'awake', and once goto was attempted the finished run has
\* called core.setFailed with the timeout message.
C4_NavTimeoutFails ==
    loadTime > NavTimeout =>
        /\ status # StatusAwake
        /\ Attempts("$", 0) = {}
        /\ ClickAttempts = {}
        /\ clicked = <<>>
        /\ Attempts("screenshot", 0) = {}
        /\ files = <<>>
        /\ (Terminal /\ Attempts("goto", NavTimeout) # {}) =>
              /\ failed = <<TimeoutMsg>>
              /\ log[Len(log)] = FailPrefix \o TimeoutMsg

C4_Witness ==
    /\ Terminal
    /\ loadTime > NavTimeout
    /\ Attempts("goto", NavTimeout) # {}
    /\ failed = <<TimeoutMsg>>

\* ------------------------------------------------------------------ C5
\* C5: on a page without a matching element the run never clicks and never
\* makes the 5 s settle wait, and a run in which no call rejected ends
\* with the screenshot written and the output status = 'awake'.
C5_NoWakeControl ==
    matches = <<>> =>
        /\ ClickAttempts = {}
        /\ clicked = <<>>
        /\ Attempts("waitForTimeout", WakeDelay) = {}
        /\ (Terminal /\ ~Threw) =>
              /\ Done("screenshot", 0) # {}
              /\ files = <<ScreenshotPath>>
              /\ status = StatusAwake
              /\ failed = <<>>

C5_Witness ==
    /\ Terminal
    /\ matches = <<>>
    /\ Done("$", 0) # {}
    /\ status = StatusAwake

\* ------------------------------------------------------------------ C6
\* C6: on a page with one or more matching elements the run clicks at most
\* one element and only the first match, and a run in which no call
\* rejected has clicked exactly that element, made the 5 s settle wait
\* right after the click and ended with the output status = 'awake'.
C6_ClicksFirstMatchOnce ==
    Len(matches) >= 1 =>
        /\ Cardinality(ClickAttempts) <= 1
        /\ \A i \in ClickAttempts : calls[i].arg = matches[1]
        /\ Len(clicked) <= 1
        /\ \A i \in DOMAIN clicked : clicked[i] = matches[1]
        /\ (Terminal /\ ~Threw) =>
              /\ clicked = <<matches[1]>>
              /\ \E i \in ClickAttempts :
                    /\ i < Len(calls)
                    /\ calls[i + 1] = Call("waitForTimeout", WakeDelay, NoError)
              /\ Cardinality(Attempts("waitForTimeout", WakeDelay)) = 1
              /\ status = StatusAwake
              /\ failed = <<>>

C6_Witness ==
    /\ Terminal
    /\ Len(matches) = 2
    /\ clicked = <<matches[1]>>
    /\ status = StatusAwake

\* ------------------------------------------------------------------ C7
\* C7: the screenshot call is never made more than once and the file is
\* never written more than once; a run that set status = 'awake' made the
\* call once and wrote 'ping-screenshot.png' once.
C7_ScreenshotOnce ==
    /\ Cardinality(Attempts("screenshot", 0)) <= 1
    /\ Len(files) <= 1
    /\ status = StatusAwake =>
          /\ Cardinality(Done("screenshot", 0)) = 1
          /\ files = <<ScreenshotPath>>

C7_Witness == status = StatusAwake /\ files = <<ScreenshotPath>>

\* ------------------------------------------------------------------ C8
\* C8: given that every awaited call settles, the run reaches its terminal
\* state with success or failure reported, and navigate, lookup, click,
\* screenshot, close and each of the two waits are attempted at most once.
AtMostOnceEach ==
    /\ Cardinality(Attempts("launch", 0)) <= 1
    /\ Cardinality(Attempts("newPage", 0)) <= 1
    /\ Cardinality(Attempts("goto", NavTimeout)) <= 1
    /\ Cardinality(Attempts("waitForTimeout", BannerDelay)) <= 1
    /\ Cardinality(Attempts("$", 0)) <= 1
    /\ Cardinality(ClickAttempts) <= 1
    /\ Cardinality(Attempts("waitForTimeout", WakeDelay)) <= 1
    /\ Cardinality(Attempts("screenshot", 0)) <= 1
    /\ Cardinality(Attempts("close", 0)) <= 1

C8_TerminatesSingleAttempt ==
    /\ <>(Terminal /\ (status = StatusAwake \/ failed # <<>>))
    /\ []AtMostOnceEach

C8_Witness ==
    /\ Terminal
    /\ Len(calls) = 9
    /\ Cardinality(Attempts("close", 0)) = 1

\* ------------------------------------------------------------------ C9
\* C9: the phase changes only along NotStarted -> Navigated ->
\* {WokeUp, AlreadyAwake} -> ScreenshotTaken -> Closed, or to Failed from a
\* phase before Closed; status = 'awake' is set only after close, close
\* only after the screenshot, the screenshot only after the lookup, the
\* lookup only after navigation followed by the 2 s pause.
PhaseStep == Phase' = Phase \/ <<Phase, Phase'>> \in PhaseEdges

CallOrder ==
    /\ status = StatusAwake =>
          /\ browser = "closed"
          /\ calls # <<>>
          /\ calls[Len(calls)] = Call("close", 0, NoError)
    /\ \A j \in Attempts("close", 0) : \E i \in Done("screenshot", 0) : i < j
    /\ \A j \in Attempts("screenshot", 0) : \E i \in Done("$", 0) : i < j
    /\ \A j \in Attempts("$", 0) :
          \E i \in Done("goto", NavTimeout), k \in Done("waitForTimeout", BannerDelay) :
              i < k /\ k < j

C9_PhaseOrder == [][PhaseStep]_vars /\ []CallOrder

C9_Witness == Phase = "Closed" /\ status = StatusAwake /\ clicked # <<>>

\* ----------------------------------------------------------------- C10
\* C10: a finished run whose log holds 'Ping successful--app is active.'
\* has status = 'awake' and no core.setFailed call.
C10_SuccessLineOnlyOnSuccess ==
    (Terminal /\ \E i \in DOMAIN log : log[i] = MsgSuccess) =>
        (status = StatusAwake /\ failed = <<>>)

====
